---- MODULE Spec2Model ----
(***************************************************************************)
(* Model of synthetic-insights-generator.py: the pipeline                  *)
(* SyntheticInsightsGenerator.process_insights_archive and the operations  *)
(* it sequences (extract, audit, layout resolution, clean, synthesize,     *)
(* compress, manifest update, provenance injection, pack).                 *)
(*                                                                         *)
(* Paths are sequences of path components.  A file name that the code      *)
(* searches for substrings is a sequence of string tokens whose            *)
(* concatenation is the name; every other name is a string.                *)
(***************************************************************************)
EXTENDS Integers, Sequences, FiniteSets, TLC

(***************************************************************************)
(* Bound of the model: how many times the pipeline is run in a row (the    *)
(* second run takes the first run's output archive as its input).          *)
(***************************************************************************)
MaxRuns == 2

None == "None"

(***************************************************************************)
(* Embedded catalogs of the class.                                         *)
(***************************************************************************)
SYSTEM_PATTERNS == {"idle", "optimized", "under_pressure", "undersized"}

AWS_INSTANCE_DOCUMENT == "AWS_INSTANCE_DOCUMENT"

CurlPrefix ==
  <<"curl", "_-s_-H_X-aws-ec2-metadata-token_MockTokenABCD1234567890XYZsampleToken9876543210EFGH_http_..169.254.169.254.latest.">>

CurlSuffix == <<"_--connect-timeout_5">>

\* file name written by inject_embedded_cloud_metadata for the instance
\* identity document
aws_document_filename ==
  CurlPrefix \o <<"dynamic.", "instance-identity.document">> \o CurlSuffix

Pkcs7Filename == CurlPrefix \o <<"dynamic.", "instance-identity.pkcs7">> \o CurlSuffix

PublicHostnameFilename == CurlPrefix \o <<"meta-data.public-hostname">> \o CurlSuffix

PublicIpv4Filename == CurlPrefix \o <<"meta-data.public-ipv4">> \o CurlSuffix

CommandOutputDescriptor(file) ==
  [type |-> "insights.core.spec_factory.CommandOutputProvider",
   save_as |-> FALSE,
   relative_path |-> <<"insights_commands/">> \o file,
   rc |-> None]

Template(name, file) ==
  [valid |-> TRUE, name |-> name, other |-> "template",
   results |-> <<CommandOutputDescriptor(file)>>]

AwsIdDocJson == "insights.specs.Specs.aws_instance_id_doc.json"

AWS_METADATA_TEMPLATES ==
  (AwsIdDocJson :>
     Template("insights.specs.Specs.aws_instance_id_doc", aws_document_filename))
  @@ ("insights.specs.Specs.aws_instance_id_pkcs7.json" :>
     Template("insights.specs.Specs.aws_instance_id_pkcs7", Pkcs7Filename))
  @@ ("insights.specs.Specs.aws_public_hostnames.json" :>
     Template("insights.specs.Specs.aws_public_hostnames", PublicHostnameFilename))
  @@ ("insights.specs.Specs.aws_public_ipv4_addresses.json" :>
     Template("insights.specs.Specs.aws_public_ipv4_addresses", PublicIpv4Filename))

CLOUD_COMMANDS == (<<"cloud-init_query_-f_cloud_name_platform">> :> "aws\nec2")

PcpRawDataJson == "insights.specs.Specs.pcp_raw_data.json"

(***************************************************************************)
(* Path helpers (os.path).                                                 *)
(***************************************************************************)
Basename(path) == path[Len(path)]

Dirname(path) == SubSeq(path, 1, Len(path) - 1)

RECURSIVE JoinDots(_)
\* the string whose dot-separated parts are the given sequence
JoinDots(parts) ==
  IF Len(parts) = 0 THEN ""
  ELSE IF Len(parts) = 1 THEN parts[1]
  ELSE parts[1] \o "." \o JoinDots(Tail(parts))

\* os.path.splitext(name)[0] on a name given by its dot-separated parts
SplitextRoot(parts) ==
  IF Len(parts) > 1 THEN SubSeq(parts, 1, Len(parts) - 1) ELSE parts

\* "x" in file, for a file name given as tokens
Contains(file, x) == \E i \in 1..Len(file) : file[i] = x

(***************************************************************************)
(* Directory trees.  A directory that may be missing is a record with an   *)
(* exists flag; the files of a manifest or command-output directory are a  *)
(* function from file name to content.                                     *)
(***************************************************************************)
NoFiles == [n \in {} |-> None]

NoPcpDir == [exists |-> FALSE, files |-> {}, dirs |-> {}]

NoDir == [exists |-> FALSE, files |-> NoFiles]

EmptyDir == [exists |-> TRUE, files |-> NoFiles]

PcpCandidates == <<"data/var/log/pcp/pmlogger", "var/log/pcp/pmlogger">>

MetaCandidates == <<"meta_data", "metadata">>

EmptyBundle ==
  [pcp |-> [c \in {PcpCandidates[1], PcpCandidates[2]} |-> NoPcpDir],
   meta |-> [c \in {MetaCandidates[1], MetaCandidates[2]} |-> NoDir],
   cmd |-> NoDir]

DirEntry(bundle) == [kind |-> "dir", bundle |-> bundle]

FileEntry == [kind |-> "file", bundle |-> EmptyBundle]

(***************************************************************************)
(* Layout resolution: first existing candidate, None when the code raises. *)
(***************************************************************************)
FindPcpDirectoryMissing(bundle) ==
  PcpCandidates[1]

FindPcpDirectoryLegacyFirst(bundle) ==
  IF bundle.pcp[PcpCandidates[2]].exists THEN PcpCandidates[2]
  ELSE IF bundle.pcp[PcpCandidates[1]].exists THEN PcpCandidates[1]
  ELSE None

find_pcp_directory(bundle) ==
  IF bundle.pcp[PcpCandidates[1]].exists THEN PcpCandidates[1]
  ELSE IF bundle.pcp[PcpCandidates[2]].exists THEN PcpCandidates[2]
  ELSE None

FindMetadataDirectoryDefault(bundle) ==
  MetaCandidates[1]

find_metadata_directory(bundle) ==
  IF bundle.meta[MetaCandidates[1]].exists THEN MetaCandidates[1]
  ELSE IF bundle.meta[MetaCandidates[2]].exists THEN MetaCandidates[2]
  ELSE None

(***************************************************************************)
(* Provenance Auditor.  The exception of find_metadata_directory is caught *)
(* and turned into False.                                                  *)
(***************************************************************************)
CloudEvidenceEither(bundle) ==
  \/ bundle.cmd.exists /\ bundle.cmd.files # NoFiles
  \/ \E i \in 1..Len(MetaCandidates) : AwsIdDocJson \in DOMAIN bundle.meta[MetaCandidates[i]].files

check_cloud_metadata_exists(bundle) ==
  LET metadata_dir == find_metadata_directory(bundle)
      aws_instance_file_found ==
        /\ bundle.cmd.exists
        /\ \E file \in DOMAIN bundle.cmd.files :
              Contains(file, "instance-identity.document") /\ Contains(file, "curl")
  IN IF metadata_dir = None THEN FALSE
     ELSE LET aws_json_exists == AwsIdDocJson \in DOMAIN bundle.meta[metadata_dir].files
          IN aws_instance_file_found /\ aws_json_exists

(***************************************************************************)
(* Cleaning of the time-series directory: os.remove of every plain file    *)
(* directly inside it; sub-directories stay.                               *)
(***************************************************************************)
CleanKeepsFiles(dir) ==
  dir

CleanPcpFiles(dir) ==
  [dir EXCEPT !.files = {}]

(***************************************************************************)
(* Time-series unit.                                                       *)
(***************************************************************************)
archive_base_name(pattern_type) == "synthetic_pcp_" \o pattern_type

UnitFile(base_name, ext) == base_name \o "." \o ext

StaleExts == {"0", "index", "meta", "0.xz", "meta.xz"}

RequiredExts == <<"0", "index", "meta">>

CompressExts == <<"0", "meta">>

FinalExts == <<"0.xz", "index", "meta.xz">>

\* files of the work directory once the stale unit files are removed and
\* the generator has created the files with the extensions in created
GeneratedFiles(files, base_name, created) ==
  (files \ {UnitFile(base_name, ext) : ext \in StaleExts})
    \cup {UnitFile(base_name, ext) : ext \in created}

NothingMissing(files, base_name, exts) ==
  None

\* first required file that does not exist, None when all exist
FirstMissing(files, base_name, exts) ==
  IF \E i \in 1..Len(exts) : UnitFile(base_name, exts[i]) \notin files
  THEN LET i == CHOOSE j \in 1..Len(exts) :
                  /\ UnitFile(base_name, exts[j]) \notin files
                  /\ \A k \in 1..(j - 1) : UnitFile(base_name, exts[k]) \in files
       IN UnitFile(base_name, exts[i])
  ELSE None

\* what a run of xz on a file can do: exit 0 having replaced the file by
\* its .xz, exit 0 having written nothing, exit non-zero having written
\* nothing
XzOutcomes ==
  {[returncode |-> 0, written |-> TRUE],
   [returncode |-> 0, written |-> FALSE],
   [returncode |-> 1, written |-> FALSE]}

XzSucceeds == [returncode |-> 0, written |-> TRUE]

\* the work directory after a run of xz on file_path
XzReplaces(files, file_path, xz) ==
  IF xz.written THEN (files \ {file_path}) \cup {file_path \o ".xz"} ELSE files

CompressIgnoresFailure(returncode) ==
  FALSE

\* compress_pcp_files raises on a non-zero exit of xz
CompressRaises(returncode) ==
  returncode # 0

CompressOneWithRetry(st, base_name, ext, xz) ==
  LET file_path == UnitFile(base_name, ext)
      run == [file |-> file_path, returncode |-> xz.returncode]
  IN IF st.failed # None \/ file_path \notin st.files THEN st
     ELSE IF xz.returncode # 0
          THEN [st EXCEPT !.failed = file_path, !.ran = st.ran \o <<run, run>>]
          ELSE [st EXCEPT !.files = XzReplaces(st.files, file_path, xz),
                          !.ran = Append(st.ran, run)]

\* one iteration of the loop of compress_pcp_files: st is the state of the
\* loop (files, failed file, the runs of xz so far), rc the exit code xz
\* gives when it is run
CompressOne(st, base_name, ext, xz) ==
  LET file_path == UnitFile(base_name, ext)
  IN IF st.failed # None \/ file_path \notin st.files THEN st
     ELSE LET ran == Append(st.ran, [file |-> file_path, returncode |-> xz.returncode])
          IN IF CompressRaises(xz.returncode)
             THEN [st EXCEPT !.failed = file_path, !.ran = ran]
             ELSE [st EXCEPT !.files = XzReplaces(st.files, file_path, xz), !.ran = ran]

compress_pcp_files(files, base_name, rcs) ==
  CompressOne(CompressOne([files |-> files, failed |-> None, ran |-> <<>>],
                          base_name, CompressExts[1], rcs[CompressExts[1]]),
              base_name, CompressExts[2], rcs[CompressExts[2]])

(***************************************************************************)
(* Manifest Updater.                                                       *)
(***************************************************************************)
RawFileDescriptor(file_path) ==
  [type |-> "insights.core.spec_factory.RawFileProvider",
   save_as |-> TRUE,
   relative_path |-> file_path,
   rc |-> None]

ExpectedFilesUncompressed(archive_name) ==
  [i \in 1..3 |-> <<"var/log/pcp/pmlogger/", UnitFile(archive_name, RequiredExts[i])>>]

expected_files(archive_name) ==
  [i \in 1..3 |-> <<"var/log/pcp/pmlogger/", UnitFile(archive_name, FinalExts[i])>>]

new_results(archive_name) ==
  [i \in 1..3 |-> RawFileDescriptor(expected_files(archive_name)[i])]

UpdateRaisesWhenMissing(dir, archive_name) ==
  IF PcpRawDataJson \notin DOMAIN dir.files THEN [dir |-> dir, raised |-> TRUE]
  ELSE [dir |-> [dir EXCEPT !.files[PcpRawDataJson].results = new_results(archive_name)],
        raised |-> ~dir.files[PcpRawDataJson].valid]

\* the manifest directory after update_pcp_metadata_json; raised tells
\* whether json.load fails on the entry file
update_pcp_metadata_json(dir, archive_name) ==
  IF PcpRawDataJson \notin DOMAIN dir.files THEN [dir |-> dir, raised |-> FALSE]
  ELSE IF ~dir.files[PcpRawDataJson].valid THEN [dir |-> dir, raised |-> TRUE]
  ELSE [dir |-> [dir EXCEPT !.files[PcpRawDataJson].results = new_results(archive_name)],
        raised |-> FALSE]

(***************************************************************************)
(* Provenance Injector: every file is opened with mode 'w'.                *)
(***************************************************************************)
InjectAlways(cloud_exists) ==
  TRUE

\* the orchestrator's condition for calling the Injector
ShouldInject(cloud_exists) ==
  ~cloud_exists

InjectCommandFilesOnly(bundle) ==
  [bundle EXCEPT
     !.cmd = [exists |-> TRUE,
              files |-> (aws_document_filename :> AWS_INSTANCE_DOCUMENT)
                          @@ CLOUD_COMMANDS @@ bundle.cmd.files]]

inject_embedded_cloud_metadata(bundle) ==
  LET target_metadata_dir == find_metadata_directory(bundle)
  IN [bundle EXCEPT
        !.cmd = [exists |-> TRUE,
                 files |-> (aws_document_filename :> AWS_INSTANCE_DOCUMENT)
                             @@ CLOUD_COMMANDS @@ bundle.cmd.files],
        !.meta[target_metadata_dir].files = AWS_METADATA_TEMPLATES @@ @]

(***************************************************************************)
(* Archives and the host file system.  An archive is a format and its      *)
(* members: a function from the member's name (a relative path) to the     *)
(* tree stored under that name.  The host file system maps the absolute    *)
(* path of a file to the archive stored there.                             *)
(***************************************************************************)
NoMembers == [r \in {} |-> FileEntry]

\* a file that is no tar archive
BadArchive == [fmt |-> "bad", members |-> NoMembers]

\* what tarfile.open(archive_name, 'w:gz') leaves when tar.add raises
PartialArchive == [fmt |-> "partial", members |-> NoMembers]

\* top-level tree of the directory an archive is extracted into
ExtractAll(archive) ==
  [item \in {Head(r) : r \in DOMAIN archive.members} |->
     IF <<item>> \in DOMAIN archive.members
     THEN archive.members[<<item>>]
     ELSE DirEntry(EmptyBundle)]

TarAddAbsolute(main_dir) ==
  main_dir

\* name of the member written by tar.add(base_name) after
\* os.chdir(parent_dir)
TarMemberName(main_dir) ==
  <<Basename(main_dir)>>

OriginalDir == <<"home", "user">>

\* line 164: the default path of the generator binary, relative to the
\* working directory
DefaultCProgram == [abs |-> FALSE, dir |-> <<>>, name |-> "synthetic-pcp-generator"]

\* an absolute path given to the constructor
CallerCProgram == [abs |-> TRUE, dir |-> <<"opt", "pmi">>, name |-> "synthetic-pcp-generator"]

\* the directory in which a path is looked up by a process whose working
\* directory is cwd
LookupDir(program, cwd) ==
  IF program.abs THEN program.dir ELSE cwd \o program.dir

\* subprocess.run([self.c_program, ...]) finds the binary: the working
\* directory is work_dir since line 267, the binary was seen by __init__
\* from the original working directory (line 167), and the cleaned work
\* directory holds no binary
ExecFound(program, work_dir) ==
  LookupDir(program, work_dir) = LookupDir(program, OriginalDir)

\* the binary could not be executed
NotExecuted == [found |-> FALSE, timeout |-> FALSE, returncode |-> 0, created |-> {}]

NoGeneratorResult == [found |-> FALSE, timeout |-> FALSE, returncode |-> -1, created |-> {}]

TempDir == <<"tmp", "tmpdir">>

HostPath(file) == file.dir \o <<JoinDots(file.parts)>>

NoOutputName == [given |-> FALSE, abs |-> FALSE, dir |-> <<>>, parts |-> <<>>]

\* output_name = f"synthetic_{pattern_type}_{base}" when none is given
DefaultOutputName(input_archive, pattern_type) ==
  LET base == SplitextRoot(input_archive.parts)
  IN [given |-> TRUE, abs |-> FALSE, dir |-> <<>>,
      parts |-> <<"synthetic_" \o pattern_type \o "_" \o base[1]>> \o Tail(base)]

EffectiveOutputName(input_archive, pattern_type, output_name) ==
  IF output_name.given THEN output_name
  ELSE DefaultOutputName(input_archive, pattern_type)

\* archive_name = f"{output_name}.tar.gz"
ArchiveName(output_name) ==
  [output_name EXCEPT !.parts = @ \o <<"tar", "gz">>]

\* os.path.join(directory, archive_name)
JoinPath(directory, name) ==
  [dir |-> IF name.abs THEN name.dir ELSE directory \o name.dir,
   parts |-> name.parts]

UnderTemp(path) ==
  Len(path) > Len(TempDir) /\ SubSeq(path, 1, Len(TempDir)) = TempDir

MkdtempNoCleanup(exists) ==
  exists

\* __exit__ of tempfile.TemporaryDirectory: the directory is removed
TemporaryDirectoryCleanup(exists) ==
  FALSE

(***************************************************************************)
(* Inputs of the model.                                                    *)
(***************************************************************************)
MainDirName == "2024-01-01T00-00-00"

RealAwsFile ==
  <<"curl", "_-s_-H_X-aws-ec2-metadata-token_HostToken_http_..169.254.169.254.latest.",
    "dynamic.", "instance-identity.document", "_--connect-timeout_5">>

WgetAwsFile == <<"wget", "_-q_http_..169.254.169.254.latest.dynamic.", "instance-identity.document">>

HostDocument == "host instance document"

HostAwsJson ==
  [valid |-> TRUE, name |-> "insights.specs.Specs.aws_instance_id_doc", other |-> "host",
   results |-> <<CommandOutputDescriptor(RealAwsFile)>>]

HostPcpJson ==
  [valid |-> TRUE, name |-> "insights.specs.Specs.pcp_raw_data", other |-> "host",
   results |-> <<RawFileDescriptor(<<"var/log/pcp/pmlogger/", "host.0.xz">>)>>]

MalformedPcpJson ==
  [valid |-> FALSE, name |-> "", other |-> "host", results |-> <<>>]

Dir(files) == [exists |-> TRUE, files |-> files]

InputCmdDirs ==
  {NoDir, EmptyDir,
   Dir(RealAwsFile :> HostDocument),
   Dir(aws_document_filename :> HostDocument),
   Dir(WgetAwsFile :> HostDocument)}

InputMetaDirs ==
  {NoDir, EmptyDir,
   Dir(PcpRawDataJson :> HostPcpJson),
   Dir((PcpRawDataJson :> HostPcpJson) @@ (AwsIdDocJson :> HostAwsJson)),
   Dir(AwsIdDocJson :> HostAwsJson),
   Dir(PcpRawDataJson :> MalformedPcpJson)}

PcpDir(files, dirs) == [exists |-> TRUE, files |-> files, dirs |-> dirs]

InputPcpDirs ==
  {NoPcpDir,
   PcpDir({}, {}),
   PcpDir({"host.0.xz", "host.index", "host.meta.xz"}, {"host1"}),
   PcpDir({"synthetic_pcp_idle.0.xz", "synthetic_pcp_idle.meta"}, {})}

LegacyPcpDir == PcpDir({"host.0.xz"}, {})

LegacyMetaDir == Dir((PcpRawDataJson :> HostPcpJson) @@ (AwsIdDocJson :> HostAwsJson))

MakeBundle(p1, p2, m1, m2, c) ==
  [pcp |-> (PcpCandidates[1] :> p1) @@ (PcpCandidates[2] :> p2),
   meta |-> (MetaCandidates[1] :> m1) @@ (MetaCandidates[2] :> m2),
   cmd |-> c]

\* bundles of the canonical layout, and bundles that have the legacy
\* directories instead of or besides the canonical ones
InputBundles ==
  {MakeBundle(p1, NoPcpDir, m1, NoDir, c) :
     p1 \in InputPcpDirs, m1 \in InputMetaDirs, c \in InputCmdDirs}
  \cup {MakeBundle(p1, LegacyPcpDir, m1, LegacyMetaDir, c) :
          p1 \in {NoPcpDir, PcpDir({"host.0.xz"}, {"host1"})},
          m1 \in {NoDir, EmptyDir},
          c \in {NoDir, Dir(RealAwsFile :> HostDocument)}}

\* bundles on which every stage of the pipeline can succeed
ConcBundles ==
  {MakeBundle(PcpDir({"host.0.xz"}, {}), NoPcpDir, Dir(HostPcpJson), NoDir, NoDir),
   MakeBundle(PcpDir({}, {"host1"}), NoPcpDir, Dir(HostAwsJson), NoDir,
              Dir(RealAwsFile :> HostDocument))}

InputArchives ==
  {BadArchive,
   [fmt |-> "tar", members |-> (<<"README">> :> FileEntry)],
   [fmt |-> "gz",
    members |-> (<<MainDirName>> :> DirEntry(EmptyBundle)) @@ (<<"other">> :> DirEntry(EmptyBundle))],
   [fmt |-> "tar",
    members |-> (<<MainDirName>> :> DirEntry(MakeBundle(PcpDir({}, {}), NoPcpDir, EmptyDir, NoDir, NoDir)))
                  @@ (<<"README">> :> FileEntry)]}
  \cup {[fmt |-> "gz", members |-> (<<MainDirName>> :> DirEntry(b))] : b \in InputBundles}

InputPaths ==
  {[dir |-> OriginalDir, parts |-> <<"a", "tar", "gz">>],
   [dir |-> <<"srv">>, parts |-> <<"a", "tar">>]}

OutputNames ==
  {NoOutputName,
   [given |-> TRUE, abs |-> FALSE, dir |-> <<>>, parts |-> <<"a">>],
   [given |-> TRUE, abs |-> TRUE, dir |-> <<"srv">>, parts |-> <<"out">>]}

(***************************************************************************)
(* State of one run of process_insights_archive.                           *)
(***************************************************************************)
VARIABLES
  pc,             \* position of the orchestrator
  runs,           \* number of the current run
  input_archive,  \* argument: path of the input archive
  pattern_type,   \* argument: load profile
  output_name,    \* argument: output name, NoOutputName when not given
  hostFiles,      \* archives on the host, by absolute path
  hostBefore,     \* hostFiles when the current run started
  temp_exists,    \* the TemporaryDirectory of the run exists
  extracted,      \* top-level tree of the TemporaryDirectory
  main_dir,       \* local main_dir, <<>> before it is assigned
  cloud_exists,   \* local cloud_exists
  pcp_dir,        \* local pcp_dir, None before it is assigned
  metadata_dir,   \* local metadata_dir, None before it is assigned
  final_archive,  \* value returned by create_insights_archive
  error,          \* the exception that ended the run, None when there is none
  generatorCalls, \* subprocess.run calls of the generator in this run
  xzRuns,         \* subprocess.run calls of xz in this run, with their exit codes
  injectorCalls,  \* calls of inject_embedded_cloud_metadata in this run
  stages,         \* positions the orchestrator has reached in this run
  packed_dir,     \* base name of the directory the previous run packed
  injected_before, \* the previous run called the Provenance Injector
  cwd,            \* os.getcwd(), the working directory of the process
  list_patterns,  \* argument --list-patterns of the command line
  c_program_exists, \* os.path.exists(self.c_program)
  printed_patterns, \* the profile catalog has been printed
  exit_code,      \* exit code of the process, -1 while it runs
  procs,          \* two processes that run the pipeline at the same time
  scratch,        \* the scratch directories of these processes that exist
  audit_error,    \* the Provenance Auditor caught an exception of the file system
  c_program,      \* self.c_program, the path of the generator binary
  generator_result \* what the call of the generator binary did in this run

vars ==
  <<pc, runs, input_archive, pattern_type, output_name, hostFiles, hostBefore,
    temp_exists, extracted, main_dir, cloud_exists, pcp_dir, metadata_dir,
    final_archive, error, generatorCalls, xzRuns, injectorCalls, stages, packed_dir, injected_before, cwd,
    list_patterns, c_program_exists, printed_patterns, exit_code, procs, scratch,
    audit_error, c_program, generator_result>>

args ==
  <<runs, input_archive, pattern_type, output_name, hostBefore, packed_dir, injected_before,
    list_patterns, c_program_exists, printed_patterns, procs, scratch, c_program>>

NoTree == [n \in {} |-> FileEntry]

NoArchive == [fmt |-> "none", members |-> NoMembers]

\* a scratch directory as tempfile.TemporaryDirectory creates it
EmptyScratch == [tree |-> NoTree, tarball |-> NoArchive]

NoScratch == [d \in {} |-> EmptyScratch]

NoFile == [dir |-> <<>>, parts |-> <<>>]

\* the bundle under main_dir in the scratch directory
Bundle == extracted[Basename(main_dir)].bundle

\* the plain files of the time-series directory in the scratch directory
WorkFiles == Bundle.pcp[pcp_dir].files

\* work_dir of generate_native_pcp_archive and compress_pcp_files
WorkDir == main_dir \o <<pcp_dir>>

NoFinallyChdir(original_dir, work_dir) ==
  work_dir

\* try: os.chdir(work_dir) ... finally: os.chdir(original_dir): the
\* working directory once the operation has returned or raised
FinallyChdir(original_dir, work_dir) ==
  original_dir

FinalPath ==
  JoinPath(cwd,
           ArchiveName(EffectiveOutputName(input_archive, pattern_type, output_name)))

\* where tarfile.open(archive_name, 'w:gz') creates the archive, the
\* working directory being the scratch directory
TarPath ==
  JoinPath(TempDir,
           ArchiveName(EffectiveOutputName(input_archive, pattern_type, output_name)))

\* archives that are also run from the other input path and with the
\* other output names
NamedRunArchives ==
  {BadArchive}
  \cup {[fmt |-> "gz", members |-> (<<MainDirName>> :> DirEntry(b))] : b \in ConcBundles}

\* a command line that asks for a run of the pipeline on an input archive
\* that exists, the generator binary being present
RunInit ==
  /\ list_patterns = FALSE
  /\ c_program_exists = TRUE
  /\ pattern_type \in SYSTEM_PATTERNS
  /\ \/ /\ input_archive = [dir |-> OriginalDir, parts |-> <<"a", "tar", "gz">>]
        /\ output_name = NoOutputName
        /\ \E a \in InputArchives : hostFiles = (HostPath(input_archive) :> a)
     \/ /\ input_archive \in InputPaths
        /\ output_name \in OutputNames
        /\ \E a \in NamedRunArchives : hostFiles = (HostPath(input_archive) :> a)

\* the other command lines and environments: --list-patterns, no input
\* archive, an input archive that does not exist, no generator binary
CliInit ==
  /\ list_patterns \in BOOLEAN
  /\ c_program_exists \in BOOLEAN
  /\ pattern_type = "undersized"
  /\ output_name = NoOutputName
  /\ \/ input_archive = NoFile /\ hostFiles = NoMembers
     \/ input_archive \in InputPaths /\ hostFiles = NoMembers
     \/ input_archive \in InputPaths /\ hostFiles = (HostPath(input_archive) :> BadArchive)

\* a run starts in main(), which constructs the generator object with the
\* default path of the binary, or in process_insights_archive called on an
\* object that was constructed with the path of an existing binary
Init ==
  /\ \/ /\ pc = "main"
        /\ stages = <<>>
        /\ c_program = DefaultCProgram
        /\ RunInit \/ CliInit
     \/ /\ pc = "start"
        /\ stages = <<"start">>
        /\ c_program = CallerCProgram
        /\ RunInit
  /\ runs = 1
  /\ hostBefore = hostFiles
  /\ temp_exists = FALSE
  /\ extracted = NoTree
  /\ main_dir = <<>>
  /\ cloud_exists = FALSE
  /\ pcp_dir = None
  /\ metadata_dir = None
  /\ final_archive = NoFile
  /\ error = None
  /\ generatorCalls = 0
  /\ xzRuns = <<>>
  /\ injectorCalls = 0
  /\ packed_dir = ""
  /\ injected_before = FALSE
  /\ cwd = OriginalDir
  /\ printed_patterns = FALSE
  /\ exit_code = -1
  /\ procs = <<>>
  /\ scratch = NoScratch
  /\ audit_error = FALSE
  /\ generator_result = NoGeneratorResult

\* an exception leaves the with block: the scratch directory is removed
\* and the exception reaches the caller
Raise(err) ==
  /\ pc' = "failed"
  /\ stages' = Append(stages, "failed")
  /\ error' = err
  /\ temp_exists' = TemporaryDirectoryCleanup(TRUE)
  /\ extracted' = NoTree
  /\ exit_code' = 1

\* the orchestrator goes on to the next position
Goto(stage) ==
  /\ pc' = stage
  /\ stages' = Append(stages, stage)
  /\ exit_code' = IF stage = "done" THEN 0 ELSE exit_code

\* the process ends before the pipeline is started
Exit(code, err) ==
  /\ pc' = "exited"
  /\ exit_code' = code
  /\ error' = err
  /\ UNCHANGED stages

\* lines 531-558 of main: --list-patterns builds the generator object
\* outside the try block, so the FileNotFoundError of __init__ (line 168)
\* ends the process with a traceback and exit code 1; the other paths end
\* in sys.exit(1) or start the pipeline
Main ==
  /\ pc = "main"
  /\ IF list_patterns
     THEN IF c_program_exists
          THEN Exit(0, None) /\ printed_patterns' = TRUE
          ELSE Exit(1, "Native C PMI program not found") /\ UNCHANGED printed_patterns
     ELSE /\ UNCHANGED printed_patterns
          /\ IF input_archive = NoFile
             THEN Exit(1, "Input archive is required when not using --list-patterns")
             ELSE IF HostPath(input_archive) \notin DOMAIN hostFiles
             THEN Exit(1, "Input archive not found")
             ELSE IF ~c_program_exists
             THEN Exit(1, "Native C PMI program not found")
             ELSE Goto("start") /\ UNCHANGED error
  /\ UNCHANGED <<runs, input_archive, pattern_type, output_name, hostBefore, packed_dir, injected_before, cwd,
                 list_patterns, c_program_exists, procs, scratch, audit_error, c_program,
                 generator_result, hostFiles,
                 temp_exists, extracted,
                 main_dir, cloud_exists, pcp_dir, metadata_dir, final_archive,
                 generatorCalls, xzRuns, injectorCalls>>

\* lines 466-468: the scratch directory is created and the archive is
\* extracted into it
Extract ==
  /\ pc = "start"
  /\ LET archive == hostFiles[HostPath(input_archive)]
         tree == ExtractAll(archive)
         dirs == {item \in DOMAIN tree : tree[item].kind = "dir"}
     IN IF archive.fmt = "bad"
        THEN Raise("ReadError") /\ UNCHANGED main_dir
        ELSE IF dirs = {}
             THEN Raise("Could not find main directory in extracted archive")
                  /\ UNCHANGED main_dir
             ELSE /\ \E item \in dirs : main_dir' = TempDir \o <<item>>
                  /\ extracted' = tree
                  /\ temp_exists' = TRUE
                  /\ Goto("extracted")
                  /\ UNCHANGED error
  /\ UNCHANGED <<args, cwd, audit_error, generator_result, hostFiles, cloud_exists, pcp_dir, metadata_dir, final_archive,
                 generatorCalls, xzRuns, injectorCalls>>

\* line 471
Audit ==
  /\ pc = "extracted"
  /\ \E io \in {"ok", "OSError"} :
       /\ audit_error' = (io = "OSError")
       /\ cloud_exists' = IF io = "OSError" THEN FALSE
                          ELSE check_cloud_metadata_exists(Bundle)
  /\ Goto("audited")
  /\ UNCHANGED <<args, cwd, generator_result, hostFiles, temp_exists, extracted, main_dir, pcp_dir, metadata_dir,
                 final_archive, error, generatorCalls, xzRuns, injectorCalls>>

\* lines 474-475
ResolveLayout ==
  /\ pc = "audited"
  /\ LET p == find_pcp_directory(Bundle)
         m == find_metadata_directory(Bundle)
     IN IF p = None
        THEN Raise("Could not find PCP pmlogger directory")
             /\ UNCHANGED <<pcp_dir, metadata_dir>>
        ELSE IF m = None
             THEN Raise("Could not find metadata directory")
                  /\ pcp_dir' = p /\ UNCHANGED metadata_dir
             ELSE /\ pcp_dir' = p
                  /\ metadata_dir' = m
                  /\ Goto("resolved")
                  /\ UNCHANGED <<error, temp_exists, extracted>>
  /\ UNCHANGED <<args, cwd, audit_error, generator_result, hostFiles, main_dir, cloud_exists, final_archive,
                 generatorCalls, xzRuns, injectorCalls>>

\* lines 478-482
Clean ==
  /\ pc = "resolved"
  /\ extracted' = [extracted EXCEPT
                     ![Basename(main_dir)].bundle.pcp[pcp_dir] = CleanPcpFiles(@)]
  /\ Goto("cleaned")
  /\ UNCHANGED <<args, cwd, audit_error, generator_result, hostFiles, temp_exists, main_dir, cloud_exists, pcp_dir, metadata_dir,
                 final_archive, error, generatorCalls, xzRuns, injectorCalls>>

(***************************************************************************)
(* What the external generator can do when it is run: time out, exit       *)
(* non-zero, or exit 0 having created any of the three files.              *)
(***************************************************************************)
GeneratorOutcomes ==
  {[found |-> TRUE, timeout |-> TRUE, returncode |-> 0, created |-> {}],
   [found |-> TRUE, timeout |-> FALSE, returncode |-> 1, created |-> {}],
   [found |-> TRUE, timeout |-> FALSE, returncode |-> 1,
    created |-> {RequiredExts[1], RequiredExts[2], RequiredExts[3]}]}
  \cup {[found |-> TRUE, timeout |-> FALSE, returncode |-> 0, created |-> c] :
          c \in SUBSET {RequiredExts[1], RequiredExts[2], RequiredExts[3]}}

GeneratorExitIgnored(out) ==
  FALSE

\* lines 291-292
GeneratorFailed(out) ==
  out.returncode # 0

\* line 488: generate_native_pcp_archive(archive_base_name, pattern_type, pcp_dir)
Synthesize ==
  /\ pc = "cleaned"
  /\ generatorCalls' = generatorCalls + 1
  /\ \E out \in IF ExecFound(c_program, WorkDir) THEN GeneratorOutcomes ELSE {NotExecuted} :
       LET base == archive_base_name(pattern_type)
           files == GeneratedFiles(WorkFiles, base, out.created)
           missing == FirstMissing(files, base, RequiredExts)
       IN /\ generator_result' = out
          /\ IF ~out.found THEN Raise("FileNotFoundError")
             ELSE IF out.timeout THEN Raise("TimeoutExpired")
             ELSE IF GeneratorFailed(out) THEN Raise("Native C PMI failed")
             ELSE IF missing # None THEN Raise("Expected file not created: " \o missing)
             ELSE /\ extracted' = [extracted EXCEPT
                                     ![Basename(main_dir)].bundle.pcp[pcp_dir].files = files]
                  /\ Goto("synthesized")
                  /\ UNCHANGED <<error, temp_exists>>
  /\ cwd' = FinallyChdir(cwd, WorkDir)
  /\ UNCHANGED <<args, audit_error, hostFiles, main_dir, cloud_exists, pcp_dir, metadata_dir,
                 final_archive, xzRuns, injectorCalls>>

\* the orchestrator waits in subprocess.run for a process that never
\* returns and that no timeout ends
Block ==
  /\ pc' = "blocked"
  /\ cwd' = WorkDir
  /\ UNCHANGED <<stages, error, temp_exists, extracted, exit_code>>

\* the calls of xz (e.g. CompressExts[2]) that can fail to return; None when
\* every call returns
XzHangs == {None, CompressExts[1], CompressExts[2]}

\* lines 491-499: compress_pcp_files and the check of its result.  xz is
\* run without a timeout (lines 320-321).
Compress ==
  /\ pc = "synthesized"
  /\ \E rcs \in [{CompressExts[1], CompressExts[2]} -> XzOutcomes], hang \in XzHangs :
       LET base == archive_base_name(pattern_type)
           files == Bundle.pcp[pcp_dir].files
           first == CompressOne([files |-> files, failed |-> None, ran |-> <<>>],
                                base, CompressExts[1], rcs[CompressExts[1]])
           st == compress_pcp_files(files, base, rcs)
           missing == FirstMissing(st.files, base, FinalExts)
       IN IF hang = CompressExts[1] /\ UnitFile(base, CompressExts[1]) \in files
          THEN Block /\ UNCHANGED xzRuns
          ELSE IF /\ hang = CompressExts[2]
                  /\ first.failed = None
                  /\ UnitFile(base, CompressExts[2]) \in first.files
          THEN Block /\ xzRuns' = first.ran
          ELSE /\ xzRuns' = st.ran
               /\ cwd' = FinallyChdir(cwd, WorkDir)
               /\ IF st.failed # None THEN Raise("Failed to compress " \o st.failed)
                  ELSE IF missing # None THEN Raise("Compressed file missing: " \o missing)
                  ELSE /\ extracted' = [extracted EXCEPT
                                          ![Basename(main_dir)].bundle.pcp[pcp_dir].files = st.files]
                       /\ Goto("compressed")
                       /\ UNCHANGED <<error, temp_exists>>
  /\ UNCHANGED <<args, audit_error, generator_result, hostFiles, main_dir, cloud_exists, pcp_dir, metadata_dir,
                 final_archive, generatorCalls, injectorCalls>>

\* line 502
UpdateManifest ==
  /\ pc = "compressed"
  /\ LET r == update_pcp_metadata_json(Bundle.meta[metadata_dir],
                                       archive_base_name(pattern_type))
     IN IF r.raised THEN Raise("JSONDecodeError")
        ELSE /\ extracted' = [extracted EXCEPT
                                ![Basename(main_dir)].bundle.meta[metadata_dir] = r.dir]
             /\ Goto("manifest_updated")
             /\ UNCHANGED <<error, temp_exists>>
  /\ UNCHANGED <<args, cwd, audit_error, generator_result, hostFiles, main_dir, cloud_exists, pcp_dir, metadata_dir,
                 final_archive, generatorCalls, xzRuns, injectorCalls>>

\* lines 505-509; a write of the Injector can fail with an OSError
ResolveProvenance ==
  /\ pc = "manifest_updated"
  /\ IF ShouldInject(cloud_exists)
     THEN /\ injectorCalls' = injectorCalls + 1
          /\ \E io \in {"ok", "OSError"} :
               IF io = "ok"
               THEN /\ extracted' = [extracted EXCEPT
                                       ![Basename(main_dir)].bundle =
                                           inject_embedded_cloud_metadata(@)]
                    /\ Goto("provenance_resolved")
                    /\ UNCHANGED <<error, temp_exists>>
               ELSE Raise("OSError")
     ELSE /\ Goto("provenance_resolved")
          /\ UNCHANGED <<injectorCalls, extracted, error, temp_exists>>
  /\ UNCHANGED <<args, cwd, audit_error, generator_result, hostFiles, main_dir, cloud_exists, pcp_dir, metadata_dir,
                 final_archive, generatorCalls, xzRuns>>

\* lines 512-514: create_insights_archive(main_dir, output_name), then the
\* with block ends.  tarfile.open can fail before it creates the file,
\* tar.add can fail after the file was created, shutil.move can fail
\* before it writes the destination.
Pack ==
  /\ pc = "provenance_resolved"
  /\ LET tar_path == HostPath(TarPath)
         final_path == HostPath(FinalPath)
         archive == [fmt |-> "gz",
                     members |-> (TarMemberName(main_dir) :> extracted[Basename(main_dir)])]
     IN \E out \in {"ok", "open failed", "add failed", "move failed"} :
          IF out = "ok"
          THEN /\ hostFiles' = (final_path :> archive) @@ hostFiles
               /\ final_archive' = FinalPath
               /\ Goto("done")
               /\ temp_exists' = TemporaryDirectoryCleanup(TRUE)
               /\ extracted' = NoTree
               /\ UNCHANGED error
          ELSE IF out = "open failed"
          THEN Raise("tarfile.open failed") /\ UNCHANGED <<hostFiles, final_archive>>
          ELSE IF out = "add failed"
          THEN /\ Raise("tar.add failed")
               /\ hostFiles' = IF UnderTemp(tar_path) THEN hostFiles
                               ELSE (tar_path :> PartialArchive) @@ hostFiles
               /\ UNCHANGED final_archive
          ELSE /\ tar_path # final_path
               /\ Raise("shutil.move failed")
               /\ UNCHANGED <<hostFiles, final_archive>>
  /\ cwd' = FinallyChdir(cwd, Dirname(main_dir))
  /\ UNCHANGED <<args, audit_error, generator_result, main_dir, cloud_exists, pcp_dir, metadata_dir,
                 generatorCalls, xzRuns, injectorCalls>>

\* the pipeline is run again, on the archive the last run produced
RunAgain ==
  /\ pc = "done"
  /\ runs < MaxRuns
  /\ runs' = runs + 1
  /\ input_archive' = final_archive
  /\ pattern_type' \in SYSTEM_PATTERNS
  /\ hostBefore' = hostFiles
  /\ pc' = "start"
  /\ stages' = <<"start">>
  /\ exit_code' = -1
  /\ packed_dir' = Basename(main_dir)
  /\ injected_before' = (injectorCalls = 1)
  /\ main_dir' = <<>>
  /\ cloud_exists' = FALSE
  /\ pcp_dir' = None
  /\ metadata_dir' = None
  /\ final_archive' = NoFile
  /\ generatorCalls' = 0
  /\ xzRuns' = <<>>
  /\ injectorCalls' = 0
  /\ audit_error' = FALSE
  /\ generator_result' = NoGeneratorResult
  /\ UNCHANGED <<cwd, output_name, hostFiles, temp_exists, extracted, error,
                 list_patterns, c_program_exists, printed_patterns, procs, scratch,
                 c_program>>

Next ==
  \/ Main
  \/ Extract
  \/ Audit
  \/ ResolveLayout
  \/ Clean
  \/ Synthesize
  \/ Compress
  \/ UpdateManifest
  \/ ResolveProvenance
  \/ Pack
  \/ RunAgain

Spec == Init /\ [][Next]_vars

(***************************************************************************)
(* Properties.                                                             *)
(***************************************************************************)
RunOver == pc \in {"done", "failed"}

\* the bundle of the input archive that the run works on
InputBundle == ExtractAll(hostBefore[HostPath(input_archive)])[Basename(main_dir)].bundle

OutArchive == hostFiles[HostPath(final_archive)]

\* the bundle of the output archive
OutBundle == ExtractAll(OutArchive)[Basename(main_dir)].bundle

ClaimUnit ==
  {"synthetic_pcp_" \o pattern_type \o ".0.xz",
   "synthetic_pcp_" \o pattern_type \o ".index",
   "synthetic_pcp_" \o pattern_type \o ".meta.xz"}

ListedPaths(entry) == {entry.results[i].relative_path : i \in 1..Len(entry.results)}

\* C1 as stated: after a successful run the time-series directory of the
\* output archive holds exactly the three files of the unit and the
\* manifest's time-series entry lists exactly those three paths.
C1_Original ==
  pc = "done" =>
    /\ OutBundle.pcp[pcp_dir].files = ClaimUnit
    /\ PcpRawDataJson \in DOMAIN OutBundle.meta[metadata_dir].files
    /\ ListedPaths(OutBundle.meta[metadata_dir].files[PcpRawDataJson])
         = {<<"var/log/pcp/pmlogger/", f>> : f \in ClaimUnit}

\* C1 amended: after a successful run the plain files directly inside the
\* time-series directory of the output archive are exactly the three files
\* of the unit; the manifest's time-series entry lists exactly those three
\* paths when the input bundle has that entry, and the output has no such
\* entry when the input has none.
C1_UnitAndManifest ==
  pc = "done" =>
    LET files == OutBundle.meta[metadata_dir].files
    IN /\ OutBundle.pcp[pcp_dir].files = ClaimUnit
       /\ PcpRawDataJson \in DOMAIN files
            <=> PcpRawDataJson \in DOMAIN InputBundle.meta[metadata_dir].files
       /\ PcpRawDataJson \in DOMAIN files =>
            /\ Len(files[PcpRawDataJson].results) = 3
            /\ ListedPaths(files[PcpRawDataJson])
                 = {<<"var/log/pcp/pmlogger/", f>> : f \in ClaimUnit}

C1_Witness ==
  /\ pc = "done"
  /\ pattern_type = "under_pressure"
  /\ InputBundle.pcp[pcp_dir].files # {}
  /\ PcpRawDataJson \in DOMAIN OutBundle.meta[metadata_dir].files

\* C2: once a run is over, in success or in a failure of any stage, its
\* scratch directory no longer exists.
C2_ScratchRemoved ==
  RunOver => ~temp_exists /\ extracted = NoTree

C2_Witness ==
  /\ pc = "failed"
  /\ error = "tar.add failed"
  /\ ~temp_exists

\* C3: a run that failed has produced no archive at the requested output
\* path.
C3_NoOutputOnFailure ==
  pc = "failed" =>
    LET final_path == HostPath(FinalPath)
    IN final_path \in DOMAIN hostFiles =>
         /\ final_path \in DOMAIN hostBefore
         /\ hostFiles[final_path] = hostBefore[final_path]

\* C4: the content stored at the input archive path is the one it had when
\* the run started.
C4_InputNeverMutated ==
  HostPath(input_archive) \in DOMAIN hostBefore =>
    hostFiles[HostPath(input_archive)] = hostBefore[HostPath(input_archive)]

\* C5: on a bundle that has neither data/var/log/pcp/pmlogger nor
\* var/log/pcp/pmlogger the run fails with the structure error of the
\* time-series directory and the generator is never run.
C5_StructuralFailFast ==
  (/\ main_dir # <<>>
   /\ ~InputBundle.pcp["data/var/log/pcp/pmlogger"].exists
   /\ ~InputBundle.pcp["var/log/pcp/pmlogger"].exists)
  => /\ generatorCalls = 0
     /\ pc \in {"extracted", "audited", "failed"}
     /\ pc = "failed" => error = "Could not find PCP pmlogger directory"

C5_Witness ==
  /\ pc = "failed"
  /\ error = "Could not find PCP pmlogger directory"
  /\ stages = <<"start", "extracted", "audited", "failed">>

Reached(stage) == \E i \in 1..Len(stages) : stages[i] = stage

SecondCompressionFailed ==
  /\ Len(xzRuns) = 2
  /\ xzRuns[1] = [file |-> "synthetic_pcp_" \o pattern_type \o ".0", returncode |-> 0]
  /\ xzRuns[2].file = "synthetic_pcp_" \o pattern_type \o ".meta"
  /\ xzRuns[2].returncode # 0

\* C6: when xz succeeds on the .0 file and exits non-zero on the .meta
\* file, the run fails with the compression error, the manifest update, the
\* injection and the packing are not reached, and no output archive is
\* produced.
C6_CompressionAtomicity ==
  SecondCompressionFailed =>
    /\ pc = "failed"
    /\ error = "Failed to compress synthetic_pcp_" \o pattern_type \o ".meta"
    /\ ~Reached("manifest_updated") /\ ~Reached("provenance_resolved") /\ ~Reached("done")
    /\ injectorCalls = 0
    /\ hostFiles = hostBefore

C6_Witness ==
  /\ SecondCompressionFailed
  /\ pc = "failed"

\* the provenance artifacts of a bundle: the command-output files and the
\* manifest documents other than the time-series entry
Provenance(bundle) ==
  [cmd |-> bundle.cmd,
   meta |-> [c \in DOMAIN bundle.meta |->
               [f \in DOMAIN bundle.meta[c].files \ {PcpRawDataJson} |->
                  bundle.meta[c].files[f]]]]

\* C7: the Injector is called at most once in a run, and only after the
\* Auditor returned false; when the Auditor returned true the Injector is
\* not called and the provenance artifacts of the bundle stay those of the
\* input, in the scratch directory and in the output archive.
C7_InjectOnlyAfterNegativeAudit ==
  /\ injectorCalls <= 1
  /\ injectorCalls = 1 => ~cloud_exists /\ Reached("audited")
  /\ cloud_exists =>
       /\ injectorCalls = 0
       /\ temp_exists => Provenance(Bundle) = Provenance(InputBundle)
       /\ pc = "done" => Provenance(OutBundle) = Provenance(InputBundle)

C7_Witness ==
  /\ pc = "done"
  /\ cloud_exists
  /\ injectorCalls = 0

\* C8: every provenance file of the input bundle has the same content in
\* the output archive.
C8_ProvenanceNeverOverwritten ==
  pc = "done" =>
    /\ \A f \in DOMAIN InputBundle.cmd.files :
         /\ f \in DOMAIN OutBundle.cmd.files
         /\ OutBundle.cmd.files[f] = InputBundle.cmd.files[f]
    /\ \A c \in DOMAIN InputBundle.meta :
         \A f \in DOMAIN InputBundle.meta[c].files \ {PcpRawDataJson} :
           /\ f \in DOMAIN OutBundle.meta[c].files
           /\ OutBundle.meta[c].files[f] = InputBundle.meta[c].files[f]

\* the injected manifest documents that name the command-output file
NamedBy(bundle, file) ==
  {d \in DOMAIN AWS_METADATA_TEMPLATES :
     /\ d \in DOMAIN bundle.meta[metadata_dir].files
     /\ \E i \in 1..Len(bundle.meta[metadata_dir].files[d].results) :
          bundle.meta[metadata_dir].files[d].results[i].relative_path
            = <<"insights_commands/">> \o file}

\* C9: in the output of a run that injected provenance, every injected
\* manifest document names a command-output file that exists in the bundle
\* and every injected command-output file is named by one injected
\* manifest document.
C9_ManifestReflectsFiles ==
  (pc = "done" /\ injectorCalls = 1) =>
    /\ \A d \in DOMAIN AWS_METADATA_TEMPLATES :
         \E file \in DOMAIN OutBundle.cmd.files : d \in NamedBy(OutBundle, file)
    /\ \A file \in {aws_document_filename} \cup DOMAIN CLOUD_COMMANDS :
         Cardinality(NamedBy(OutBundle, file)) = 1

ContainsPath(name, path) ==
  \E i \in 0..(Len(name) - Len(path)) : SubSeq(name, i + 1, i + Len(path)) = path

\* C10: the archive a run produces has one top-level entry, the directory
\* named by the base name of the packed root directory, no member name
\* contains the path of the scratch directory, and extracting the archive
\* again gives a root directory of that base name.
C10_RoundTripNaming ==
  /\ pc = "done" =>
       LET tree == ExtractAll(OutArchive)
       IN /\ DOMAIN tree = {Basename(main_dir)}
          /\ tree[Basename(main_dir)].kind = "dir"
          /\ \A name \in DOMAIN OutArchive.members : ~ContainsPath(name, TempDir)
  /\ (runs > 1 /\ main_dir # <<>>) => Basename(main_dir) = packed_dir

C10_Witness ==
  /\ runs = 2
  /\ pc = "extracted"
  /\ Basename(main_dir) = "2024-01-01T00-00-00"
  /\ packed_dir = "2024-01-01T00-00-00"

\* C11: no call of an external process is waited on without bound: a
\* generator or compressor that never returns ends in a timeout failure, so
\* the orchestrator is never left waiting and every run ends in done or
\* failed.
C11_EveryCallBounded ==
  pc # "blocked"

\* C12: a command line with --list-patterns prints the profile catalog and
\* exits with code 0, with or without an input archive and whatever the
\* environment.
C12_ListPatternsExitsZero ==
  (list_patterns /\ pc = "exited") => (exit_code = 0 /\ printed_patterns)

(***************************************************************************)
(* Two processes that run the pipeline at the same time on one host, from  *)
(* the same working directory.  Each process is process_insights_archive   *)
(* with every external call succeeding; its steps are the accesses to the  *)
(* file system the processes share.                                        *)
(***************************************************************************)
ScratchNames == {"tmpA", "tmpB"}

SharedScratchNames(existing) ==
  ScratchNames

\* tempfile.TemporaryDirectory: mkdtemp never returns a directory that
\* exists
FreshScratchNames(existing) ==
  ScratchNames \ existing

\* lines 471-509 on a bundle, every external call succeeding
process_bundle(bundle, pattern) ==
  LET d == find_pcp_directory(bundle)
      m == find_metadata_directory(bundle)
      cloud == check_cloud_metadata_exists(bundle)
      base == archive_base_name(pattern)
      cleaned == CleanPcpFiles(bundle.pcp[d])
      generated == GeneratedFiles(cleaned.files, base,
                                  {RequiredExts[1], RequiredExts[2], RequiredExts[3]})
      compressed == compress_pcp_files(generated, base,
                                       [e \in {CompressExts[1], CompressExts[2]} |-> XzSucceeds])
      updated == update_pcp_metadata_json(bundle.meta[m], base)
      b == [bundle EXCEPT !.pcp[d] = [cleaned EXCEPT !.files = compressed.files],
                          !.meta[m] = updated.dir]
  IN IF ShouldInject(cloud) THEN inject_embedded_cloud_metadata(b) ELSE b

ConcPatterns == {"idle", "undersized"}

ProcIds == {1, 2}

Other(p) == 3 - p

\* final_path of line 436 for a process
ProcFinalPath(r) ==
  JoinPath(OriginalDir, ArchiveName(EffectiveOutputName(r.input, r.pattern, r.output)))

\* the archive a process produces when it runs alone on the host
AloneOutput(r) ==
  LET tree == ExtractAll(hostBefore[HostPath(r.input)])
      item == CHOOSE i \in DOMAIN tree : tree[i].kind = "dir"
  IN [fmt |-> "gz",
      members |-> (<<item>> :> DirEntry(process_bundle(tree[item].bundle, r.pattern)))]

ConcInit ==
  /\ pc = "concurrent"
  /\ runs = 1
  /\ input_archive = NoFile
  /\ pattern_type = "undersized"
  /\ output_name = NoOutputName
  /\ list_patterns = FALSE
  /\ c_program_exists = TRUE
  /\ \E b1 \in ConcBundles, b2 \in ConcBundles :
       hostFiles =
         (HostPath([dir |-> OriginalDir, parts |-> <<"a", "tar", "gz">>])
            :> [fmt |-> "gz", members |-> (<<MainDirName>> :> DirEntry(b1))])
         @@ (HostPath([dir |-> <<"srv">>, parts |-> <<"a", "tar">>])
               :> [fmt |-> "gz", members |-> (<<MainDirName>> :> DirEntry(b2))])
  /\ hostBefore = hostFiles
  /\ \E p1 \in ConcPatterns, p2 \in ConcPatterns, o1 \in OutputNames, o2 \in OutputNames :
       procs = <<[pc |-> "start", input |-> [dir |-> OriginalDir, parts |-> <<"a", "tar", "gz">>],
                  pattern |-> p1, output |-> o1, tmp |-> None, main |-> None],
                 [pc |-> "start", input |-> [dir |-> <<"srv">>, parts |-> <<"a", "tar">>],
                  pattern |-> p2, output |-> o2, tmp |-> None, main |-> None]>>
  /\ scratch = NoScratch
  /\ temp_exists = FALSE
  /\ extracted = NoTree
  /\ main_dir = <<>>
  /\ cloud_exists = FALSE
  /\ pcp_dir = None
  /\ metadata_dir = None
  /\ final_archive = NoFile
  /\ error = None
  /\ generatorCalls = 0
  /\ xzRuns = <<>>
  /\ injectorCalls = 0
  /\ stages = <<>>
  /\ packed_dir = ""
  /\ injected_before = FALSE
  /\ cwd = OriginalDir
  /\ printed_patterns = FALSE
  /\ exit_code = -1
  /\ audit_error = FALSE
  /\ c_program = CallerCProgram
  /\ generator_result = NoGeneratorResult

\* the variables of the single run stay as they are
ConcFrame ==
  UNCHANGED <<pc, runs, input_archive, pattern_type, output_name, hostBefore, temp_exists,
              extracted, main_dir, cloud_exists, pcp_dir, metadata_dir, final_archive,
              error, generatorCalls, xzRuns, injectorCalls, stages, packed_dir, injected_before, cwd,
              list_patterns, c_program_exists, printed_patterns, exit_code, audit_error,
              c_program, generator_result>>

\* line 466: with tempfile.TemporaryDirectory() as temp_dir
Mkdtemp(p) ==
  /\ procs[p].pc = "start"
  /\ \E d \in FreshScratchNames(DOMAIN scratch) :
       /\ procs' = [procs EXCEPT ![p].pc = "scratch", ![p].tmp = d]
       /\ scratch' = IF d \in DOMAIN scratch THEN scratch
                     ELSE (d :> EmptyScratch) @@ scratch
  /\ UNCHANGED hostFiles
  /\ ConcFrame

\* line 468: the input archive is read and extracted into the scratch
\* directory
ConcExtract(p) ==
  /\ procs[p].pc = "scratch"
  /\ procs[p].tmp \in DOMAIN scratch
  /\ LET tree == ExtractAll(hostFiles[HostPath(procs[p].input)])
     IN /\ scratch' = [scratch EXCEPT ![procs[p].tmp].tree = tree @@ @]
        /\ \E item \in {i \in DOMAIN tree : tree[i].kind = "dir"} :
             procs' = [procs EXCEPT ![p].pc = "extracted", ![p].main = item]
  /\ UNCHANGED hostFiles
  /\ ConcFrame

\* lines 471-509 on the bundle in the scratch directory
Transform(p) ==
  /\ procs[p].pc = "extracted"
  /\ procs[p].tmp \in DOMAIN scratch
  /\ scratch' = [scratch EXCEPT ![procs[p].tmp].tree[procs[p].main].bundle =
                                   process_bundle(@, procs[p].pattern)]
  /\ procs' = [procs EXCEPT ![p].pc = "transformed"]
  /\ UNCHANGED hostFiles
  /\ ConcFrame

\* lines 433-434: the archive is written in the scratch directory, or at
\* the absolute path that --output names
ConcTar(p) ==
  /\ procs[p].pc = "transformed"
  /\ procs[p].tmp \in DOMAIN scratch
  /\ LET r == procs[p]
         archive == [fmt |-> "gz",
                     members |-> (TarMemberName(TempDir \o <<r.main>>)
                                    :> scratch[r.tmp].tree[r.main])]
     IN IF r.output.abs
        THEN /\ hostFiles' = (HostPath(ProcFinalPath(r)) :> archive) @@ hostFiles
             /\ UNCHANGED scratch
        ELSE /\ scratch' = [scratch EXCEPT ![r.tmp].tarball = archive]
             /\ UNCHANGED hostFiles
  /\ procs' = [procs EXCEPT ![p].pc = "tarred"]
  /\ ConcFrame

\* lines 436-437: shutil.move(archive_name, final_path)
ConcMove(p) ==
  /\ procs[p].pc = "tarred"
  /\ procs[p].tmp \in DOMAIN scratch
  /\ LET r == procs[p]
     IN IF r.output.abs
        THEN UNCHANGED <<hostFiles, scratch>>
        ELSE /\ hostFiles' = (HostPath(ProcFinalPath(r)) :> scratch[r.tmp].tarball) @@ hostFiles
             /\ scratch' = [scratch EXCEPT ![r.tmp].tarball = NoArchive]
  /\ procs' = [procs EXCEPT ![p].pc = "moved"]
  /\ ConcFrame

\* end of the with block of line 466: the scratch directory is removed
ConcCleanup(p) ==
  /\ procs[p].pc = "moved"
  /\ scratch' = [d \in DOMAIN scratch \ {procs[p].tmp} |-> scratch[d]]
  /\ procs' = [procs EXCEPT ![p].pc = "done"]
  /\ UNCHANGED hostFiles
  /\ ConcFrame

ConcNext ==
  \E p \in ProcIds :
    \/ Mkdtemp(p)
    \/ ConcExtract(p)
    \/ Transform(p)
    \/ ConcTar(p)
    \/ ConcMove(p)
    \/ ConcCleanup(p)

ConcSpec == ConcInit /\ [][ConcNext]_vars

HasScratch(p) == procs[p].pc \in {"scratch", "extracted", "transformed", "tarred", "moved"}

\* the output path of process p is neither the output path nor the input
\* path of the other process
OutputPathOwn(p) ==
  /\ ProcFinalPath(procs[p]) # ProcFinalPath(procs[Other(p)])
  /\ HostPath(ProcFinalPath(procs[p])) # HostPath(procs[Other(p)].input)

\* C13 as stated: two concurrent runs on different input archives use
\* their own scratch areas and each run's output archive equals the one it
\* produces when run alone.
C13_Original ==
  /\ (HasScratch(1) /\ HasScratch(2)) => procs[1].tmp # procs[2].tmp
  /\ \A p \in ProcIds :
       (procs[1].pc = "done" /\ procs[2].pc = "done") =>
         hostFiles[HostPath(ProcFinalPath(procs[p]))] = AloneOutput(procs[p])

\* C13: two concurrent runs on different input archives use their own
\* scratch areas, which hold nothing but what the run itself put there;
\* when the output path of neither run is the output path or the input
\* path of the other, each run's output archive equals the one it produces
\* when run alone.
C13_IndependentRuns ==
  /\ (HasScratch(1) /\ HasScratch(2)) => procs[1].tmp # procs[2].tmp
  /\ \A p \in ProcIds : HasScratch(p) => procs[p].tmp \in DOMAIN scratch
  /\ (OutputPathOwn(1) /\ OutputPathOwn(2)) =>
       \A p \in ProcIds :
         /\ procs[p].pc = "extracted" =>
              scratch[procs[p].tmp].tree = ExtractAll(hostBefore[HostPath(procs[p].input)])
         /\ procs[p].pc \in {"moved", "done"} =>
              hostFiles[HostPath(ProcFinalPath(procs[p]))] = AloneOutput(procs[p])

\* both runs have ended, having held scratch directories at the same time,
\* and their outputs are different archives at different paths
C13_Witness ==
  /\ procs[1].pc = "done" /\ procs[2].pc = "done"
  /\ procs[1].tmp # procs[2].tmp
  /\ OutputPathOwn(1) /\ OutputPathOwn(2)
  /\ hostFiles[HostPath(ProcFinalPath(procs[1]))] # hostFiles[HostPath(ProcFinalPath(procs[2]))]

\* the stages of process_insights_archive in the order of its code
StageOrder ==
  <<"start", "extracted", "audited", "resolved", "cleaned", "synthesized",
    "compressed", "manifest_updated", "provenance_resolved", "done">>

ExtractedInput == ExtractAll(hostBefore[HostPath(input_archive)])

TimeSeriesDirMissing == \A i \in 1..Len(PcpCandidates) : ~InputBundle.pcp[PcpCandidates[i]].exists

ManifestDirMissing == \A i \in 1..Len(MetaCandidates) : ~InputBundle.meta[MetaCandidates[i]].exists

CommandOutputDirMissing == ~InputBundle.cmd.exists

\* nothing in the scratch directory was deleted, created or modified, and
\* no external program was run
NothingMutated ==
  /\ temp_exists => extracted = ExtractedInput
  /\ generatorCalls = 0
  /\ xzRuns = <<>>
  /\ injectorCalls = 0

\* C15 as stated: when the time-series directory, the manifest directory
\* or the command-output directory is missing, the run fails and nothing in
\* the extracted bundle has been changed.
C15_Original ==
  (/\ main_dir # <<>>
   /\ TimeSeriesDirMissing \/ ManifestDirMissing \/ CommandOutputDirMissing)
  => /\ pc # "done"
     /\ NothingMutated

\* C15: when the time-series directory or the manifest directory is
\* missing, the run fails at layout resolution and nothing in the extracted
\* bundle has been deleted, created or modified; a missing command-output
\* directory is no error.
C15_LayoutFailFast ==
  (/\ main_dir # <<>>
   /\ TimeSeriesDirMissing \/ ManifestDirMissing)
  => /\ pc \in {"extracted", "audited", "failed"}
     /\ pc = "failed" => stages = <<"start", "extracted", "audited", "failed">>
     /\ NothingMutated
     /\ hostFiles = hostBefore

\* a run on a bundle that has the time-series directory and the command
\* output directory, but no manifest directory, has failed
C15_Witness ==
  /\ pc = "failed"
  /\ main_dir # <<>>
  /\ ManifestDirMissing
  /\ ~TimeSeriesDirMissing
  /\ ~CommandOutputDirMissing
  /\ error = "Could not find metadata directory"

\* C16: the run gets past the compression stage only with all three final
\* files of the unit in the time-series directory; when one is missing after
\* the compression, also because xz was not run on a source file that did
\* not exist, the run fails.
C16_NoPartialUnit ==
  /\ (Reached("compressed") /\ temp_exists) =>
       \A i \in 1..Len(FinalExts) :
         UnitFile(archive_base_name(pattern_type), FinalExts[i]) \in WorkFiles
  /\ pc = "done" => ClaimUnit \subseteq OutBundle.pcp[pcp_dir].files
  /\ (pc = "failed" /\ Reached("synthesized") /\ ~Reached("compressed")) =>
       \/ \E i \in 1..Len(xzRuns) : xzRuns[i].returncode # 0
       \/ \E i \in 1..Len(FinalExts) :
            error = "Compressed file missing: "
                      \o UnitFile(archive_base_name(pattern_type), FinalExts[i])
  /\ pc = "cleaned" =>
       LET st == compress_pcp_files(WorkFiles, archive_base_name(pattern_type),
                                    [e \in {CompressExts[1], CompressExts[2]} |-> XzSucceeds])
       IN /\ st.ran = <<>>
          /\ FirstMissing(st.files, archive_base_name(pattern_type), FinalExts) # None

\* xz exited 0 on both files and the .meta.xz file is not there: the run
\* has failed at the verification of the compressed files
C16_Witness ==
  /\ pc = "failed"
  /\ Len(xzRuns) = 2
  /\ xzRuns[1].returncode = 0 /\ xzRuns[2].returncode = 0
  /\ error = "Compressed file missing: " \o UnitFile(archive_base_name(pattern_type), FinalExts[3])

\* the command-output directory of the input bundle has a file whose name
\* contains "instance-identity.document" and "curl"
CommandEvidence ==
  /\ InputBundle.cmd.exists
  /\ \E file \in DOMAIN InputBundle.cmd.files :
        /\ \E i \in 1..Len(file) : file[i] = "instance-identity.document"
        /\ \E i \in 1..Len(file) : file[i] = "curl"

\* the first manifest directory candidate that exists in the input bundle
\* has the file insights.specs.Specs.aws_instance_id_doc.json
ManifestEvidence ==
  \E i \in 1..Len(MetaCandidates) :
    /\ InputBundle.meta[MetaCandidates[i]].exists
    /\ \A j \in 1..(i - 1) : ~InputBundle.meta[MetaCandidates[j]].exists
    /\ AwsIdDocJson \in DOMAIN InputBundle.meta[MetaCandidates[i]].files

\* C17: the audit answers true exactly when the command-output directory
\* has the instance-identity file of curl and the resolved manifest
\* directory has insights.specs.Specs.aws_instance_id_doc.json; without a
\* manifest directory or on an error of the file system it answers false,
\* the run does not fail in the audit, and the bundle is left as extracted.
C17_AuditExact ==
  /\ ~(pc = "failed" /\ stages = <<"start", "extracted", "failed">>)
  /\ (Reached("audited") /\ main_dir # <<>>) =>
       /\ cloud_exists <=> (~audit_error /\ CommandEvidence /\ ManifestEvidence)
       /\ ManifestDirMissing => ~cloud_exists
       /\ pc = "audited" => extracted = ExtractedInput /\ hostFiles = hostBefore

\* the audit met an error of the file system on a bundle that has both
\* pieces of evidence, and answered false
C17_Witness ==
  /\ pc = "audited"
  /\ audit_error
  /\ CommandEvidence /\ ManifestEvidence
  /\ ~cloud_exists

AllRequired == {RequiredExts[1], RequiredExts[2], RequiredExts[3]}

GeneratorSucceeded ==
  /\ generator_result.found
  /\ ~generator_result.timeout
  /\ generator_result.returncode = 0
  /\ generator_result.created = AllRequired

\* C18: the synthesis succeeds only if the generator exited 0 and the three
\* files <unit>.0, <unit>.index and <unit>.meta exist in the work directory;
\* a non-zero exit, a timeout or a missing file ends the run, and no stale
\* file of the unit is left from before the run of the generator.
C18_SynthesisChecked ==
  /\ Reached("synthesized") => GeneratorSucceeded
  /\ pc = "synthesized" =>
       /\ \A e \in AllRequired : UnitFile(archive_base_name(pattern_type), e) \in WorkFiles
       /\ \A e \in StaleExts \ AllRequired :
            UnitFile(archive_base_name(pattern_type), e) \notin WorkFiles
  /\ (generatorCalls = 1 /\ ~GeneratorSucceeded) =>
       /\ pc = "failed"
       /\ stages = <<"start", "extracted", "audited", "resolved", "cleaned", "failed">>
  /\ pc = "resolved" =>
       \A created \in SUBSET AllRequired :
         {f \in GeneratedFiles(WorkFiles, archive_base_name(pattern_type), created) :
            \E e \in StaleExts : f = UnitFile(archive_base_name(pattern_type), e)}
           = {UnitFile(archive_base_name(pattern_type), e) : e \in created}

\* the generator exited 0 without the .meta file: the run has failed
C18_Witness ==
  /\ pc = "failed"
  /\ generator_result.found /\ generator_result.returncode = 0
  /\ generator_result.created = {RequiredExts[1], RequiredExts[2]}
  /\ error = "Expected file not created: " \o UnitFile(archive_base_name(pattern_type), RequiredExts[3])

\* the time-series manifest entry of the input bundle and of the bundle in
\* the scratch directory
EntryBefore == InputBundle.meta[metadata_dir].files[PcpRawDataJson]

EntryAfter == Bundle.meta[metadata_dir].files[PcpRawDataJson]

EntryExists == PcpRawDataJson \in DOMAIN InputBundle.meta[metadata_dir].files

\* C19: when the time-series manifest entry exists, the update replaces
\* only its descriptor list: the list then holds the three descriptors of
\* <unit>.0.xz, <unit>.index and <unit>.meta.xz in this order, each with
\* save_as true and no return code; the other fields of the entry and the
\* other files of the manifest directory are as before.
C19_OnlyDescriptorsReplaced ==
  (Reached("manifest_updated") /\ temp_exists /\ EntryExists) =>
    /\ Len(EntryAfter.results) = 3
    /\ \A i \in 1..3 :
         EntryAfter.results[i] =
           [type |-> "insights.core.spec_factory.RawFileProvider",
            save_as |-> TRUE,
            relative_path |-> <<"var/log/pcp/pmlogger/",
                                "synthetic_pcp_" \o pattern_type \o "." \o FinalExts[i]>>,
            rc |-> None]
    /\ [EntryAfter EXCEPT !.results = <<>>] = [EntryBefore EXCEPT !.results = <<>>]
    /\ pc = "manifest_updated" =>
         /\ DOMAIN Bundle.meta[metadata_dir].files = DOMAIN InputBundle.meta[metadata_dir].files
         /\ \A f \in DOMAIN Bundle.meta[metadata_dir].files \ {PcpRawDataJson} :
              Bundle.meta[metadata_dir].files[f] = InputBundle.meta[metadata_dir].files[f]

\* the manifest entry of the input listed other files than the update wrote
C19_Witness ==
  /\ pc = "manifest_updated"
  /\ EntryExists
  /\ EntryAfter.results # EntryBefore.results
  /\ EntryAfter.other = "host"

\* C20: with a manifest directory that has no
\* insights.specs.Specs.pcp_raw_data.json the manifest update changes
\* nothing and does not end the run, which goes on to packing and can end
\* in DONE; without any manifest directory the run fails at layout
\* resolution.
C20_MissingEntryToleratedMissingDirFatal ==
  /\ (Reached("compressed") /\ ~EntryExists) =>
       /\ ~(pc = "failed" /\ Len(stages) = 8)
       /\ pc = "manifest_updated" =>
            Bundle.meta[metadata_dir] = InputBundle.meta[metadata_dir]
       /\ pc = "done" => PcpRawDataJson \notin DOMAIN OutBundle.meta[metadata_dir].files
  /\ (main_dir # <<>> /\ ManifestDirMissing /\ ~TimeSeriesDirMissing) =>
       /\ pc \in {"extracted", "audited", "failed"}
       /\ pc = "failed" =>
            /\ error = "Could not find metadata directory"
            /\ stages = <<"start", "extracted", "audited", "failed">>

\* a run on a bundle whose manifest directory has no time-series entry has
\* ended in DONE
C20_Witness ==
  /\ pc = "done"
  /\ ~EntryExists
  /\ stages = StageOrder
  /\ HostPath(final_archive) \in DOMAIN hostFiles

\* the layout resolution of this run has returned or raised
LayoutResolved ==
  /\ main_dir # <<>>
  /\ Reached("audited")
  /\ pc # "audited"

\* C21: each layout resolver returns the first candidate of its list that
\* exists: data/var/log/pcp/pmlogger before var/log/pcp/pmlogger, meta_data
\* before metadata, the second only when the first does not exist, and it
\* raises its structure error exactly when neither exists.
C21_FirstCandidateWins ==
  LayoutResolved =>
    /\ InputBundle.pcp["data/var/log/pcp/pmlogger"].exists
         => pcp_dir = "data/var/log/pcp/pmlogger"
    /\ (/\ ~InputBundle.pcp["data/var/log/pcp/pmlogger"].exists
        /\ InputBundle.pcp["var/log/pcp/pmlogger"].exists)
         => pcp_dir = "var/log/pcp/pmlogger"
    /\ TimeSeriesDirMissing <=>
         (pc = "failed" /\ error = "Could not find PCP pmlogger directory")
    /\ ~TimeSeriesDirMissing =>
         /\ InputBundle.meta["meta_data"].exists => metadata_dir = "meta_data"
         /\ (~InputBundle.meta["meta_data"].exists /\ InputBundle.meta["metadata"].exists)
              => metadata_dir = "metadata"
         /\ ManifestDirMissing <=>
              (pc = "failed" /\ error = "Could not find metadata directory")

\* both candidates of both lists exist and the canonical ones were taken
C21_Witness ==
  /\ pc = "resolved"
  /\ InputBundle.pcp["data/var/log/pcp/pmlogger"].exists
  /\ InputBundle.pcp["var/log/pcp/pmlogger"].exists
  /\ InputBundle.meta["meta_data"].exists
  /\ InputBundle.meta["metadata"].exists
  /\ pcp_dir = "data/var/log/pcp/pmlogger"
  /\ metadata_dir = "meta_data"

\* the Injector has completed in this run
InjectedNow == injectorCalls = 1 /\ Reached("provenance_resolved")

C23_WorkingDirectoryRestored ==
  pc # "blocked" => cwd = OriginalDir

\* the generator timed out inside the work directory and the run has
\* failed with the working directory restored
C23_Witness ==
  /\ pc = "failed"
  /\ generator_result.timeout
  /\ error = "TimeoutExpired"
  /\ cwd = OriginalDir

====
